---- MODULE Spec2Model ----
(***************************************************************************)
(* A model of checkbook.py: the Ledger class (balances, reconciliation,    *)
(* add, soft delete) and the interactive session of launch_tui (cursor,    *)
(* scroll, bank balance, search, one action per key of curses_main).       *)
(*                                                                         *)
(* Python values are represented as follows.                               *)
(*   - a list is a sequence; a Python index i (0-based, negative counts    *)
(*     from the end) is kept as the integer the program holds;             *)
(*   - the dict objects of account["transactions"] are the elements of     *)
(*     acct.transactions; ledger.transactions holds references to the same *)
(*     objects, kept here as positions into acct.transactions (the backing *)
(*     list only ever grows by append, so a position names one object);    *)
(*   - None is the empty sequence <<>> and a present value v is <<v>>;     *)
(*   - a Decimal is its number of cents; the text of an amount is kept as  *)
(*     the string the program stores, and parsed by Decimal as the code    *)
(*     does;                                                               *)
(*   - an uncaught exception ends the session: status = "aborted" and err  *)
(*     names the exception (curses.wrapper re-raises it, nothing is saved).*)
(***************************************************************************)
EXTENDS Integers, Sequences, FiniteSets, TLC

\* Largest length of account["transactions"] explored.
MaxTxns == 3

\* Number of transactions of the long account file used for scrolling.
ScrollLen == 9

VARIABLES
    acct,          \* the account dict: initial_balance (text), transactions (list)
    txns,          \* ledger.transactions: references into acct.transactions
    idx,           \* cursor of the session
    scroll,        \* first row shown
    bank_balance,  \* <<>> or <<cents>>
    last_search,   \* <<>> or <<term>>
    h,             \* terminal height
    status,        \* "running", "quit", "aborted"
    err,           \* "" or the name of the exception that ended the session
    store          \* content of the account file

vars == <<acct, txns, idx, scroll, bank_balance, last_search, h, status, err, store>>

None == <<>>

----------------------------------------------------------------------------
\* Text and Decimal

TODAY == "2026-11-06"

\* Texts Decimal(...) accepts, with their value in cents.
DecimalTable ==
    [ s \in {"-20.00", "-5.00", "0", "0.00", "50.00", "+50.00", "100.00", "105.00"} |->
        CASE s = "-20.00" -> 0 - 2000
          [] s = "-5.00"  -> 0 - 500
          [] s = "0"      -> 0
          [] s = "0.00"   -> 0
          [] s = "50.00"  -> 5000
          [] s = "+50.00" -> 5000
          [] s = "100.00" -> 10000
          [] s = "105.00" -> 10500 ]

\* Decimal(s) raises InvalidOperation unless s is a decimal numeral.
DecimalOK(s) == s \in DOMAIN DecimalTable

Decimal(s) == DecimalTable[s]

\* str(Decimal(s)): the sign "+" is dropped, digits and exponent are kept.
DecimalStr(s) == IF s = "+50.00" THEN "50.00" ELSE s

\* str.strip()
Strip(s) ==
    CASE s = " "       -> ""
      [] s = " food "  -> "food"
      [] OTHER         -> s

\* str.lower()
Lower(s) ==
    CASE s = "RENT" -> "rent"
      [] s = "Pay"  -> "pay"
      [] s = "Y"    -> "y"
      [] s = "N"    -> "n"
      [] OTHER      -> s

today_if_dot(s) == IF Strip(s) = "." THEN TODAY ELSE Strip(s)

\* s.lower().startswith("y")
StartsWithY(s) == Lower(s) \in {"y", "yes"}

\* Python list indexing: lst[i] is defined for -n <= i < n.
PyValid(i, n) == (0 - n) <= i /\ i < n

\* The 1-based position lst[i] names.
PyPos(i, n) == (IF i < 0 THEN i + n ELSE i) + 1

\* lst.pop(i)
PyPop(lst, i) ==
    LET p == PyPos(i, Len(lst))
    IN  SubSeq(lst, 1, p - 1) \o SubSeq(lst, p + 1, Len(lst))

----------------------------------------------------------------------------
\* class Ledger.  A Ledger value is [account, transactions]: self.account and
\* self.transactions (references into account.transactions).

\* The dict objects self.transactions refers to, in order.
Objects(self) ==
    [k \in 1..Len(self.transactions) |-> self.account.transactions[self.transactions[k]]]

\* Ledger.__init__: the references to the transactions not marked deleted.
RECURSIVE NotDeletedRefs(_, _)
NotDeletedRefs(lst, k) ==
    IF k > Len(lst) THEN <<>>
    ELSE (IF lst[k].deleted THEN <<>> ELSE <<k>>) \o NotDeletedRefs(lst, k + 1)

Ledger(account) ==
    [account |-> account, transactions |-> NotDeletedRefs(account.transactions, 1)]

initial_balance_of(self) == Decimal(self.account.initial_balance)

\* Every Decimal(str(t["amount"])) of the ledger succeeds.
AmountsParse(self) ==
    \A k \in 1..Len(self.transactions) : DecimalOK(Objects(self)[k].amount)

\* sum(...) over a sequence of cents
RECURSIVE PySum(_)
PySum(s) == IF s = <<>> THEN 0 ELSE Head(s) + PySum(Tail(s))

\* Ledger.running_balance: bal accumulates, one append per transaction.
RECURSIVE running_loop(_, _, _)
running_loop(bal, ts, balances) ==
    IF ts = <<>> THEN balances
    ELSE LET b == bal + Decimal(Head(ts).amount)
         IN  running_loop(b, Tail(ts), Append(balances, b))

\* Variant: the accumulator starts at zero instead of initial_balance.
running_balance_from_zero(self) == running_loop(0, Objects(self), <<>>)

running_balance(self) == running_loop(initial_balance_of(self), Objects(self), <<>>)

\* Variant: the initial balance is left out of the register balance.
register_balance_no_initial(self) ==
    PySum([k \in 1..Len(self.transactions) |-> Decimal(Objects(self)[k].amount)])

\* Ledger.register_balance
register_balance(self) ==
    initial_balance_of(self)
      + PySum([k \in 1..Len(self.transactions) |-> Decimal(Objects(self)[k].amount)])

\* Variant: the debit sum without the "not cleared" filter.
RECURSIVE checks_sum_any_cleared(_)
checks_sum_any_cleared(ts) ==
    IF ts = <<>> THEN 0
    ELSE (IF Decimal(Head(ts).amount) < 0 THEN 0 - Decimal(Head(ts).amount) ELSE 0)
            + checks_sum_any_cleared(Tail(ts))

\* Variant: the deposit sum without the "not cleared" filter.
RECURSIVE deposits_sum_any_cleared(_)
deposits_sum_any_cleared(ts) ==
    IF ts = <<>> THEN 0
    ELSE (IF Decimal(Head(ts).amount) > 0 THEN Decimal(Head(ts).amount) ELSE 0)
            + deposits_sum_any_cleared(Tail(ts))

\* The two generator sums of Ledger.reconcile.
RECURSIVE checks_sum(_)
checks_sum(ts) ==
    IF ts = <<>> THEN 0
    ELSE (IF ~Head(ts).cleared /\ Decimal(Head(ts).amount) < 0
             THEN 0 - Decimal(Head(ts).amount) ELSE 0) + checks_sum(Tail(ts))

RECURSIVE deposits_sum(_)
deposits_sum(ts) ==
    IF ts = <<>> THEN 0
    ELSE (IF ~Head(ts).cleared /\ Decimal(Head(ts).amount) > 0
             THEN Decimal(Head(ts).amount) ELSE 0) + deposits_sum(Tail(ts))

\* Variant: the difference compares the bank balance itself with the
\* register balance.
reconcile_bank_against_register(self, bank) ==
    LET uncleared_checks   == checks_sum(Objects(self))
        uncleared_deposits == deposits_sum(Objects(self))
        ending_balance     == bank - uncleared_checks + uncleared_deposits
        difference         == bank - register_balance(self)
    IN  [ bank_balance       |-> bank,
          uncleared_checks   |-> uncleared_checks,
          uncleared_deposits |-> uncleared_deposits,
          ending_balance     |-> ending_balance,
          register_balance   |-> register_balance(self),
          difference         |-> difference ]

\* Ledger.reconcile; bank is the Decimal bank balance in cents.
reconcile(self, bank) ==
    LET uncleared_checks   == checks_sum(Objects(self))
        uncleared_deposits == deposits_sum(Objects(self))
        ending_balance     == bank - uncleared_checks + uncleared_deposits
        difference         == ending_balance - register_balance(self)
    IN  [ bank_balance       |-> bank,
          uncleared_checks   |-> uncleared_checks,
          uncleared_deposits |-> uncleared_deposits,
          ending_balance     |-> ending_balance,
          register_balance   |-> register_balance(self),
          difference         |-> difference ]

\* Variant: the new transaction reaches the account only.
add_transaction_account_only(self, t) ==
    [ account      |-> [self.account EXCEPT !.transactions = Append(@, t)],
      transactions |-> self.transactions ]

\* Variant: the transaction leaves the visible list without being marked.
delete_transaction_unmarked(self, i) ==
    [ account      |-> self.account,
      transactions |-> PyPop(self.transactions, i) ]

\* Variant: the target is marked but pop() removes the last visible one.
delete_transaction_pop_last(self, i) ==
    LET ref == self.transactions[PyPos(i, Len(self.transactions))]
    IN  [ account      |-> [self.account EXCEPT !.transactions[ref].deleted = TRUE],
          transactions |-> SubSeq(self.transactions, 1, Len(self.transactions) - 1) ]

\* Ledger.add_transaction: the same object is appended to both lists.
add_transaction(self, t) ==
    [ account      |-> [self.account EXCEPT !.transactions = Append(@, t)],
      transactions |-> Append(self.transactions, Len(self.account.transactions) + 1) ]

\* Ledger.delete_transaction, for an index self.transactions[i] accepts
\* (otherwise line 59 raises IndexError before anything is changed).
delete_transaction(self, i) ==
    LET ref == self.transactions[PyPos(i, Len(self.transactions))]
    IN  [ account      |-> [self.account EXCEPT !.transactions[ref].deleted = TRUE],
          transactions |-> PyPop(self.transactions, i) ]

----------------------------------------------------------------------------
\* launch_tui: the session

\* The Ledger object of the session and its visible dicts.
ledger == [account |-> acct, transactions |-> txns]

backing == acct.transactions

\* Account files the session is started on (load_account fills in a missing
\* initial_balance with "0.00").
AcctEmpty == [initial_balance |-> "100.00", transactions |-> <<>>]

AcctLoaded ==
    [ initial_balance |-> "0.00",
      transactions |->
        << [ date |-> "2024-01-15", description |-> "Pay", category |-> <<"job">>,
             amount |-> "50.00", cleared |-> TRUE, deleted |-> TRUE ],
           [ date |-> "2024-01-15", description |-> "rent", category |-> None,
             amount |-> "0", cleared |-> FALSE, deleted |-> FALSE ] >> ]

Accounts == {AcctEmpty, AcctLoaded}

\* --bank-balance of the tui command: absent or a decimal text.
InitialBanks == {None, <<"105.00">>}

\* Terminal heights (stdscr.getmaxyx); the help column needs 15 rows.
TermHeights == {15}

\* Responses typed at the prompts of "a": date, description, category,
\* amount, cleared.
AddInputs ==
    { [date |-> ".", description |-> "rent", category |-> "",
       amount |-> "-20.00", cleared |-> "n"],
      [date |-> "2024-01-15", description |-> "Pay", category |-> "job",
       amount |-> "+50.00", cleared |-> "Y"],
      [date |-> ".", description |-> "rent", category |-> "",
       amount |-> "abc", cleared |-> ""] }

\* Responses typed at the four prompts of "e".
EditInputs ==
    { [date |-> "", description |-> "", category |-> "", amount |-> ""],
      [date |-> "", description |-> "", category |-> "", amount |-> "-5.00"],
      [date |-> "", description |-> "", category |-> " ", amount |-> ""],
      [date |-> "", description |-> "", category |-> "", amount |-> "abc"] }

\* Responses at the prompts of "e" that turn a transaction into a deposit.
DepositEdits ==
    { [date |-> "", description |-> "", category |-> "", amount |-> "50.00"] }

\* Responses typed at the prompt of "r".
BankInputs == {"", "105.00", "abc"}

\* Terms typed at the prompt of "F".
FindInputs == {"RENT"}

\* draw: the rows left for transactions (visible, lines 173-190).
visible_rows(bank, height) ==
    LET lines == IF bank # None THEN 6 ELSE 1
        top   == lines + 1
    IN  height - top - 1

\* Variant: a cursor below the window is left one row below it.
draw_scroll_one_short(i, sc, bank, height) ==
    LET visible == visible_rows(bank, height)
        s1      == IF i < sc THEN i ELSE sc
    IN  IF i >= s1 + visible THEN i - visible ELSE s1

\* draw: the scroll offset after the two adjustments of lines 189-196.
draw_scroll(i, sc, bank, height) ==
    LET visible == visible_rows(bank, height)
        s1      == IF i < sc THEN i ELSE sc
    IN  IF i >= s1 + visible THEN i - visible + 1 ELSE s1

\* An uncaught exception leaves the loop; nothing is saved.
Raise(e) ==
    /\ status' = "aborted"
    /\ err' = e
    /\ UNCHANGED <<acct, txns, idx, scroll, bank_balance, last_search, h, store>>

\* The handler of a key has left the session with account a, visible list t,
\* cursor i, scroll sc, bank balance b and search term ls; the loop then
\* draws.  draw parses every visible amount (reconcile, running_balance)
\* before it touches scroll.
Shown(a, t, i, sc, b, ls) ==
    /\ acct' = a
    /\ txns' = t
    /\ idx' = i
    /\ bank_balance' = b
    /\ last_search' = ls
    /\ UNCHANGED <<h, store>>
    /\ IF AmountsParse([account |-> a, transactions |-> t])
          THEN /\ status' = "running"
               /\ err' = ""
               /\ scroll' = draw_scroll(i, sc, b, h)
          ELSE /\ status' = "aborted"
               /\ err' = "InvalidOperation"
               /\ scroll' = sc

Init ==
    /\ acct \in Accounts
    /\ txns = Ledger(acct).transactions
    /\ idx = 0
    /\ \E ib \in InitialBanks :
          bank_balance = IF ib = None THEN None ELSE <<Decimal(ib[1])>>
    /\ last_search = None
    /\ h \in TermHeights
    /\ scroll = draw_scroll(0, 0, bank_balance, h)
    /\ status = "running"
    /\ err = ""
    /\ store = acct

\* range(a, b) and range(a, b, -1)
PyRange(a, b) == IF b > a THEN [k \in 1..(b - a) |-> a + k - 1] ELSE <<>>

PyRangeDown(a, b) == IF a > b THEN [k \in 1..(a - b) |-> a - k + 1] ELSE <<>>

\* The body shared by the four loops of jump_next_uncleared and
\* jump_prev_uncleared: the first index visited whose transaction is not
\* cleared, or the IndexError of txns[i].
RECURSIVE first_uncleared(_, _)
first_uncleared(cands, objs) ==
    IF cands = <<>> THEN [kind |-> "none", i |-> 0]
    ELSE IF ~PyValid(Head(cands), Len(objs))
            THEN [kind |-> "IndexError", i |-> Head(cands)]
    ELSE IF ~objs[PyPos(Head(cands), Len(objs))].cleared
            THEN [kind |-> "found", i |-> Head(cands)]
    ELSE first_uncleared(Tail(cands), objs)

\* Variant: after the end of the list the scan goes back from the cursor
\* instead of restarting at the top.
jump_next_wrapping_backwards(i, objs) ==
    first_uncleared(PyRange(i + 1, Len(objs)) \o PyRangeDown(i, 0 - 1), objs)

jump_next_uncleared(i, objs) ==
    first_uncleared(PyRange(i + 1, Len(objs)) \o PyRange(0, i + 1), objs)

jump_prev_uncleared(i, objs) ==
    first_uncleared(PyRangeDown(i - 1, 0 - 1) \o PyRangeDown(Len(objs) - 1, i - 1), objs)

\* json.dumps(t).lower(): the keys and values of the dict, in lower case.
Dumps(t) ==
    { Lower(x) : x \in
        { "date", "description", "category", "amount", "cleared", "deleted",
          t.date, t.description, t.amount,
          IF t.category = None THEN "null" ELSE t.category[1],
          IF t.cleared THEN "true" ELSE "false",
          IF t.deleted THEN "true" ELSE "false" } }

\* needle in hay, for the texts of the model
Contains(needle, hay) ==
    \/ needle = ""
    \/ needle = hay
    \/ <<needle, hay>> \in {<<"ren", "rent">>, <<"ent", "rent">>, <<"ay", "pay">>}

Match(search, t) == \E tok \in Dumps(t) : Contains(Lower(search), tok)

\* find_next: the while loop, from start with the flag wrapped.
RECURSIVE find_loop(_, _, _, _)
find_loop(start, wrapped, search, objs) ==
    IF start >= Len(objs) /\ wrapped THEN [kind |-> "none", i |-> 0]
    ELSE LET s == IF start >= Len(objs) THEN 0 ELSE start
             w == wrapped \/ start >= Len(objs)
         IN  IF ~PyValid(s, Len(objs)) THEN [kind |-> "IndexError", i |-> s]
             ELSE IF Match(search, objs[PyPos(s, Len(objs))])
                     THEN [kind |-> "found", i |-> s]
             ELSE find_loop(s + 1, w, search, objs)

find_next(i, search, objs) == find_loop(i + 1, FALSE, search, objs)

\* The outcome of a jump or a find: idx_set on a hit, nothing otherwise.
Moved(r, ls) ==
    CASE r.kind = "IndexError" -> Raise("IndexError")
      [] r.kind = "found"      -> Shown(acct, txns, r.i, r.i, bank_balance, ls)
      [] OTHER                 -> Shown(acct, txns, idx, scroll, bank_balance, ls)

\* edit_transaction: the dict after the four prompts.
edit_transaction(t, in) ==
    LET sd == Strip(in.date)
        ss == Strip(in.description)
        sc == Strip(in.category)
        sa == Strip(in.amount)
    IN  [ t EXCEPT
            !.date        = IF sd # "" THEN today_if_dot(sd) ELSE @,
            !.description = IF ss # "" THEN ss ELSE @,
            !.category    = IF sc # "" THEN (IF sc = " " THEN None ELSE <<sc>>) ELSE @,
            !.amount      = IF sa # "" THEN sa ELSE @ ]

\* add_transaction_tui: the dict built from the five prompts (the amount
\* has been parsed).
new_transaction(in) ==
    [ date        |-> today_if_dot(in.date),
      description |-> in.description,
      category    |-> IF in.category = "" THEN None ELSE <<in.category>>,
      amount      |-> DecimalStr(in.amount),
      cleared     |-> StartsWithY(in.cleared),
      deleted     |-> FALSE ]

----------------------------------------------------------------------------
\* curses_main: one action per key

Running == status = "running"

\* Variant: only the transactions not marked deleted are written.
save_account_visible_only(a) ==
    [a EXCEPT !.transactions = SelectSeq(@, LAMBDA t : ~t.deleted)]

\* save_account: the file is overwritten with the whole account dict.
save_account(a) == a

KeyQuit ==
    /\ Running
    /\ store' = save_account(acct)
    /\ status' = "quit"
    /\ UNCHANGED <<acct, txns, idx, scroll, bank_balance, last_search, h, err>>

KeyDown ==
    /\ Running
    /\ Shown(acct, txns, IF idx < Len(txns) - 1 THEN idx + 1 ELSE idx, scroll,
             bank_balance, last_search)

KeyUp ==
    /\ Running
    /\ Shown(acct, txns, IF idx > 0 THEN idx - 1 ELSE idx, scroll,
             bank_balance, last_search)

KeyTop ==
    /\ Running
    /\ Shown(acct, txns, 0, scroll, bank_balance, last_search)

KeyBottom ==
    /\ Running
    /\ Shown(acct, txns, Len(txns) - 1, scroll, bank_balance, last_search)

KeySpace ==
    /\ Running
    /\ IF ~PyValid(idx, Len(txns)) THEN Raise("IndexError")
       ELSE LET ref == txns[PyPos(idx, Len(txns))]
            IN  Shown([acct EXCEPT !.transactions[ref].cleared = ~@], txns, idx,
                      scroll, bank_balance, last_search)

KeyBank(in) ==
    /\ Running
    /\ LET s == Strip(in)
       IN  IF s = "" THEN Shown(acct, txns, idx, scroll, bank_balance, last_search)
           ELSE IF ~DecimalOK(s) THEN Raise("InvalidOperation")
           ELSE Shown(acct, txns, idx, scroll, <<Decimal(s)>>, last_search)

KeyEdit(in) ==
    /\ Running
    /\ IF ~PyValid(idx, Len(txns)) THEN Raise("IndexError")
       ELSE LET ref == txns[PyPos(idx, Len(txns))]
            IN  Shown([acct EXCEPT !.transactions[ref] = edit_transaction(@, in)],
                      txns, idx, scroll, bank_balance, last_search)

KeyDelete ==
    /\ Running
    /\ IF ~PyValid(idx, Len(txns)) THEN Raise("IndexError")
       ELSE LET l == delete_transaction(ledger, idx)
                i == IF idx - 1 > 0 THEN idx - 1 ELSE 0
            IN  Shown(l.account, l.transactions, i, scroll, bank_balance, last_search)

KeyAdd(in) ==
    /\ Running
    /\ Len(backing) < MaxTxns
    /\ IF ~DecimalOK(in.amount) THEN Raise("InvalidOperation")
       ELSE LET l == add_transaction(ledger, new_transaction(in))
            IN  Shown(l.account, l.transactions, idx, scroll, bank_balance, last_search)

KeyNextUncleared ==
    /\ Running
    /\ Moved(jump_next_uncleared(idx, Objects(ledger)), last_search)

KeyPrevUncleared ==
    /\ Running
    /\ Moved(jump_prev_uncleared(idx, Objects(ledger)), last_search)

\* last_search is assigned before find_next runs (line 334).
KeyFind(in) ==
    /\ Running
    /\ IF find_next(idx, in, Objects(ledger)).kind = "IndexError"
          THEN /\ status' = "aborted"
               /\ err' = "IndexError"
               /\ last_search' = <<in>>
               /\ UNCHANGED <<acct, txns, idx, scroll, bank_balance, h, store>>
          ELSE Moved(find_next(idx, in, Objects(ledger)), <<in>>)

KeyFindNext ==
    /\ Running
    /\ IF last_search = None \/ last_search = <<"">>
          THEN Shown(acct, txns, idx, scroll, bank_balance, last_search)
          ELSE Moved(find_next(idx, last_search[1], Objects(ledger)), last_search)

Next ==
    \/ KeyQuit
    \/ KeyDown
    \/ KeyUp
    \/ KeyTop
    \/ KeyBottom
    \/ KeySpace
    \/ \E in \in BankInputs : KeyBank(in)
    \/ \E in \in EditInputs : KeyEdit(in)
    \/ KeyDelete
    \/ \E in \in AddInputs : KeyAdd(in)
    \/ KeyNextUncleared
    \/ KeyPrevUncleared
    \/ \E in \in FindInputs : KeyFind(in)
    \/ KeyFindNext

Spec == Init /\ [][Next]_vars

\* Sessions that only move the cursor and change the ledger: the keys that
\* add, delete, edit and toggle transactions, and the cursor keys that reach
\* them.
NextLedger ==
    \/ KeyDown
    \/ KeyUp
    \/ KeyTop
    \/ KeyBottom
    \/ KeySpace
    \/ \E in \in EditInputs : KeyEdit(in)
    \/ KeyDelete
    \/ \E in \in AddInputs : KeyAdd(in)

SpecLedger == Init /\ [][NextLedger]_vars

\* Sessions using every key, in which every transaction entered with "a" is
\* the same debit.
NextKeys ==
    \/ KeyQuit
    \/ KeyDown
    \/ KeyUp
    \/ KeyTop
    \/ KeyBottom
    \/ KeySpace
    \/ \E in \in BankInputs : KeyBank(in)
    \/ \E in \in EditInputs : KeyEdit(in)
    \/ KeyDelete
    \/ \E in \in {x \in AddInputs : x.amount = "-20.00"} : KeyAdd(in)
    \/ KeyNextUncleared
    \/ KeyPrevUncleared
    \/ \E in \in FindInputs : KeyFind(in)
    \/ KeyFindNext

SpecKeys == Init /\ [][NextKeys]_vars

\* Sessions that add uncleared debits, turn transactions into deposits,
\* toggle and delete them.
NextReconcile ==
    \/ KeyDown
    \/ KeyUp
    \/ KeySpace
    \/ \E in \in DepositEdits : KeyEdit(in)
    \/ KeyDelete
    \/ \E in \in {x \in AddInputs : x.amount = "-20.00"} : KeyAdd(in)

SpecReconcile == Init /\ [][NextReconcile]_vars

\* An account file with more transactions than the window has rows once the
\* reconciliation panel is shown: every second one is cleared.
AcctLong ==
    [ initial_balance |-> "0.00",
      transactions |->
        [ k \in 1..ScrollLen |->
            [ date |-> "2024-01-15", description |-> "rent", category |-> None,
              amount |-> "-20.00", cleared |-> (k % 2 = 0), deleted |-> FALSE ] ] ]

InitScroll ==
    /\ acct = AcctLong
    /\ txns = Ledger(acct).transactions
    /\ idx = 0
    /\ \E ib \in InitialBanks :
          bank_balance = IF ib = None THEN None ELSE <<Decimal(ib[1])>>
    /\ last_search = None
    /\ h \in TermHeights
    /\ scroll = draw_scroll(0, 0, bank_balance, h)
    /\ status = "running"
    /\ err = ""
    /\ store = acct

\* Sessions on the long account that move the cursor, jump, search, delete
\* and enter the bank balance.
NextScroll ==
    \/ KeyDown
    \/ KeyUp
    \/ KeyTop
    \/ KeyBottom
    \/ KeyDelete
    \/ \E in \in BankInputs : KeyBank(in)
    \/ KeyNextUncleared
    \/ KeyPrevUncleared
    \/ \E in \in FindInputs : KeyFind(in)
    \/ KeyFindNext

SpecScroll == InitScroll /\ [][NextScroll]_vars

----------------------------------------------------------------------------
\* Definitions the properties are stated with, independent of the Ledger
\* operators above.

\* The sum of vals[k] over the positions k in S.
RECURSIVE SumAt(_, _)
SumAt(vals, S) ==
    IF S = {} THEN 0
    ELSE LET k == CHOOSE x \in S : TRUE
         IN  vals[k] + SumAt(vals, S \ {k})

\* Positions of the backing list not marked deleted, in stored order.
LiveRefs == SelectSeq([k \in 1..Len(backing) |-> k], LAMBDA k : ~backing[k].deleted)

\* Every amount of a non-deleted stored transaction is a decimal numeral.
LiveAmountsAreDecimal ==
    \A k \in 1..Len(backing) : ~backing[k].deleted => DecimalOK(backing[k].amount)

\* initial_balance + the amounts of the non-deleted stored transactions
LiveBalance ==
    Decimal(acct.initial_balance)
      + SumAt([k \in 1..Len(backing) |-> IF DecimalOK(backing[k].amount)
                                            THEN Decimal(backing[k].amount) ELSE 0],
              {k \in 1..Len(backing) : ~backing[k].deleted})

\* Amount in cents and cleared flag of the k-th visible transaction.
VisAmount(k) == Decimal(backing[txns[k]].amount)

VisCleared(k) == backing[txns[k]].cleared

ValidCursor == 0 <= idx /\ idx < Len(txns)

----------------------------------------------------------------------------
\* C1: in the session no command performs an out-of-range access on the
\* visible transaction list; no IndexError ever ends the session.
C1_NoIndexError == err # "IndexError"

\* C2: whenever the visible list is non-empty the cursor satisfies
\* 0 <= cursorIndex < transactionCount.
C2_CursorInRange == Len(txns) > 0 => (0 <= idx /\ idx < Len(txns))

\* C3: the visible list is exactly the subsequence of the backing list whose
\* deleted flag is false, in stored order (same objects, same order).
C3_VisibleIsLiveBacking ==
    /\ txns = LiveRefs
    /\ Objects(ledger) = SelectSeq(backing, LAMBDA t : ~t.deleted)

\* C3 witness: a session in which a transaction was added, one deleted, one
\* edited and one toggled, with both deleted and visible records stored.
C3_Witness ==
    /\ status = "running"
    /\ Len(backing) = MaxTxns
    /\ Len(txns) >= 1
    /\ \E k \in 1..Len(backing) : backing[k].deleted /\ backing[k].description = "rent"
    /\ \E k \in 1..Len(txns) : VisCleared(k) /\ backing[txns[k]].amount = "-5.00"

\* C4: registerBalance() is initial_balance plus the sum of the amounts of
\* all non-deleted transactions of the backing store, whatever operations
\* came before.
C4_RegisterBalance ==
    LiveAmountsAreDecimal /\ AmountsParse(ledger) => register_balance(ledger) = LiveBalance

\* C4 witness: a deleted record with a non-zero amount is stored next to
\* visible ones, after an edit of an amount.
C4_Witness ==
    /\ status = "running"
    /\ Len(txns) >= 2
    /\ \E k \in 1..Len(backing) : backing[k].deleted /\ backing[k].amount = "-20.00"
    /\ \E k \in 1..Len(txns) : backing[txns[k]].amount = "-5.00"
    /\ register_balance(ledger) # Decimal(acct.initial_balance)

\* C5: runningBalances() has one entry per visible transaction, entry i is
\* initial_balance plus the sum of amounts[0..i]; its last entry is
\* registerBalance(); it is empty for an empty ledger.
C5_RunningBalances ==
    AmountsParse(ledger) =>
        LET rb == running_balance(ledger)
        IN  /\ Len(rb) = Len(txns)
            /\ \A i \in 1..Len(txns) :
                  rb[i] = Decimal(acct.initial_balance)
                            + SumAt([k \in 1..Len(txns) |-> VisAmount(k)], 1..i)
            /\ (Len(txns) > 0 => rb[Len(rb)] = register_balance(ledger))
            /\ (Len(txns) = 0 => rb = <<>>)

\* C5 witness: three visible transactions with different running balances.
C5_Witness ==
    /\ status = "running"
    /\ Len(txns) = 3
    /\ Cardinality({running_balance(ledger)[i] : i \in 1..3}) = 3

\* Bank balances reconcile is evaluated on.
BankValues == {Decimal(s) : s \in {x \in BankInputs : DecimalOK(x)}} \cup {0}

\* C6: reconcile(bankBalance): unclearedChecks is the sum of the negated
\* amounts of the uncleared visible transactions with amount < 0,
\* unclearedDeposits the sum of the amounts of those with amount > 0,
\* endingBalance = bankBalance - unclearedChecks + unclearedDeposits and
\* difference = endingBalance - registerBalance(); zero amounts, cleared and
\* deleted transactions contribute to neither sum.
C6_Reconcile ==
    LiveAmountsAreDecimal /\ AmountsParse(ledger) =>
        \A b \in BankValues :
            LET rec      == reconcile(ledger, b)
                N        == 1..Len(txns)
                checks   == SumAt([k \in N |-> 0 - VisAmount(k)],
                                  {k \in N : ~VisCleared(k) /\ VisAmount(k) < 0})
                deposits == SumAt([k \in N |-> VisAmount(k)],
                                  {k \in N : ~VisCleared(k) /\ VisAmount(k) > 0})
                nonzero  == SumAt([k \in N |-> IF VisAmount(k) < 0 THEN 0 - VisAmount(k)
                                                                    ELSE VisAmount(k)],
                                  {k \in N : ~VisCleared(k) /\ VisAmount(k) # 0})
            IN  /\ rec.bank_balance = b
                /\ rec.uncleared_checks = checks
                /\ rec.uncleared_deposits = deposits
                /\ rec.uncleared_checks + rec.uncleared_deposits = nonzero
                /\ rec.ending_balance = b - checks + deposits
                /\ rec.register_balance = LiveBalance
                /\ rec.difference = rec.ending_balance - LiveBalance

\* C6 witness: an uncleared zero amount, an uncleared debit and a deleted
\* record with a non-zero amount, with the bank balance entered.
C6_Witness ==
    /\ status = "running"
    /\ bank_balance # None
    /\ \E k \in 1..Len(txns) : ~VisCleared(k) /\ backing[txns[k]].amount = "0"
    /\ \E k \in 1..Len(txns) : ~VisCleared(k) /\ backing[txns[k]].amount = "-20.00"
    /\ \E k \in 1..Len(backing) : backing[k].deleted /\ backing[k].amount = "50.00"

\* The ledger of the worked example: initial balance 100.00 and visible
\* transactions -20.00 (uncleared), +50.00 (cleared), -5.00 (uncleared).
WorkedExample ==
    /\ acct.initial_balance = "100.00"
    /\ Len(txns) = 3
    /\ AmountsParse(ledger)
    /\ <<VisAmount(1), VisAmount(2), VisAmount(3)>> = <<0 - 2000, 5000, 0 - 500>>
    /\ <<VisCleared(1), VisCleared(2), VisCleared(3)>> = <<FALSE, TRUE, FALSE>>

\* C7 as stated: on the worked example reconcile(105.00) yields
\* unclearedChecks = 20.00, unclearedDeposits = 0.00, endingBalance = 85.00,
\* difference = -40.00, registerBalance = 125.00.
C7_AsStated ==
    WorkedExample =>
        LET rec == reconcile(ledger, 10500)
        IN  /\ rec.uncleared_checks = 2000
            /\ rec.uncleared_deposits = 0
            /\ rec.ending_balance = 8500
            /\ rec.difference = 0 - 4000
            /\ rec.register_balance = 12500

\* C7 amended: on the worked example reconcile(105.00) yields
\* unclearedChecks = 25.00 (both uncleared debits), unclearedDeposits = 0.00,
\* endingBalance = 80.00, difference = -45.00, registerBalance = 125.00.
C7_WorkedExample ==
    WorkedExample =>
        LET rec == reconcile(ledger, 10500)
        IN  /\ rec.uncleared_checks = 2500
            /\ rec.uncleared_deposits = 0
            /\ rec.ending_balance = 8000
            /\ rec.difference = 0 - 4500
            /\ rec.register_balance = 12500

\* C7 witness: the session shows the worked example with bank balance 105.00.
C7_Witness == status = "running" /\ WorkedExample /\ bank_balance = <<10500>>

\* C8: soft delete.  The backing list never shrinks and a deleted flag never
\* reverts; a delete at a valid index marks exactly the target deleted in
\* the backing list, changes no other field of any transaction, and removes
\* the target from the visible list and from registerBalance() and
\* runningBalances().
C8_Step ==
    /\ Len(backing') >= Len(backing)
    /\ \A k \in 1..Len(backing) : backing[k].deleted => backing'[k].deleted
    /\ (\E k \in 1..Len(backing) : backing'[k].deleted /\ ~backing[k].deleted) /\ ValidCursor =>
          LET ref == txns[idx + 1]
              now == [account |-> acct', transactions |-> txns']
          IN  /\ backing' = [backing EXCEPT ![ref].deleted = TRUE]
              /\ txns' = SubSeq(txns, 1, idx) \o SubSeq(txns, idx + 2, Len(txns))
              /\ \A k \in 1..Len(txns') : txns'[k] # ref
              /\ register_balance(now) = register_balance(ledger) - Decimal(backing[ref].amount)
              /\ Len(running_balance(now)) = Len(txns) - 1

C8_SoftDelete == [][C8_Step]_vars

\* C8 witness: a transaction entered or loaded as visible is stored deleted,
\* beside visible ones.
C8_Witness ==
    /\ status = "running"
    /\ Len(backing) = MaxTxns
    /\ Len(txns) = 2
    /\ \E k \in 1..Len(backing) : backing[k].deleted /\ backing[k].description = "rent"

\* C9: deleteTransaction(index) with an index outside 0 <= index < len(visible)
\* (a negative index, any index on an empty ledger) fails with an index
\* error and leaves the visible list and the backing store unchanged.
C9_InvalidIndexRejected ==
    [][ KeyDelete /\ ~ValidCursor =>
            /\ err' = "IndexError"
            /\ txns' = txns
            /\ acct' = acct ]_vars

\* C10: addTransaction(t) puts t exactly once in the visible list, as its
\* last element, and once more at the end of the backing list; the earlier
\* visible transactions keep their order; registerBalance() grows by
\* t.amount; the add command leaves the cursor where it was.
C10_Step ==
    Len(backing') > Len(backing) =>
        LET n   == Len(backing')
            now == [account |-> acct', transactions |-> txns']
        IN  /\ n = Len(backing) + 1
            /\ SubSeq(backing', 1, n - 1) = backing
            /\ ~backing'[n].deleted
            /\ txns' = Append(txns, n)
            /\ Cardinality({k \in 1..Len(txns') : txns'[k] = n}) = 1
            /\ register_balance(now) = register_balance(ledger) + Decimal(backing'[n].amount)
            /\ idx' = idx

C10_AddThenList == [][C10_Step]_vars

\* C10 witness: three transactions were added to an empty account, the
\* cursor is on the second.
C10_Witness ==
    /\ status = "running"
    /\ acct.initial_balance = "100.00"
    /\ txns = <<1, 2, 3>>
    /\ idx = 1

\* C11: up and down move the cursor by exactly one unless that would leave
\* [0, transactionCount-1] (then it stays), top sets it to 0 and bottom to
\* transactionCount-1; on an empty ledger each of the four is a no-op; no
\* move command changes a transaction or the bank balance.
C11_Step ==
    /\ KeyDown => idx' = (IF 0 <= idx + 1 /\ idx + 1 <= Len(txns) - 1 THEN idx + 1 ELSE idx)
    /\ KeyUp => idx' = (IF 0 <= idx - 1 /\ idx - 1 <= Len(txns) - 1 THEN idx - 1 ELSE idx)
    /\ KeyTop => idx' = (IF Len(txns) = 0 THEN idx ELSE 0)
    /\ KeyBottom => idx' = (IF Len(txns) = 0 THEN idx ELSE Len(txns) - 1)
    /\ (KeyDown \/ KeyUp \/ KeyTop \/ KeyBottom) =>
          acct' = acct /\ txns' = txns /\ bank_balance' = bank_balance

C11_MoveCursor == [][C11_Step]_vars

\* C12: toggle flips the cleared flag of exactly the transaction at the
\* cursor and changes nothing else (no other transaction, no amount, not the
\* register balance, not the cursor); on an empty ledger it is a no-op.
C12_Step ==
    KeySpace =>
        IF Len(txns) = 0 THEN UNCHANGED vars
        ELSE ValidCursor =>
                /\ backing' = [backing EXCEPT ![txns[idx + 1]].cleared = ~@]
                /\ acct'.initial_balance = acct.initial_balance
                /\ txns' = txns
                /\ idx' = idx
                /\ status' = "running"
                /\ register_balance([account |-> acct', transactions |-> txns'])
                      = register_balance(ledger)

C12_ToggleCleared == [][C12_Step]_vars

\* C13: at the category prompt of edit a response of a single space clears
\* the category (None), an empty response leaves it unchanged; stated of
\* every visible transaction of every reachable ledger.
C13_SpaceClearsCategory ==
    \A k \in 1..Len(txns) :
        LET t == backing[txns[k]]
        IN  /\ edit_transaction(t, [date |-> "", description |-> "",
                                    category |-> " ", amount |-> ""]).category = None
            /\ edit_transaction(t, [date |-> "", description |-> "",
                                    category |-> "", amount |-> ""]).category = t.category

\* C14: non-numeric text at a numeric prompt (amount of add, amount of edit,
\* bank balance) is recoverable: no exception ends the session and every
\* stored amount stays a decimal numeral.
C14_InvalidInputRecoverable ==
    /\ err # "InvalidOperation"
    /\ \A k \in 1..Len(backing) : DecimalOK(backing[k].amount)

\* C15: quit hands the store the whole account as it stands after all the
\* preceding commands (added, edited, toggled and soft-deleted records
\* included) and the session ends; no other command writes the store.
C15_Step ==
    /\ status = "running"
    /\ status' = "quit" => store' = acct /\ acct' = acct
    /\ store' # store => status' = "quit"
    /\ KeyQuit => status' = "quit"

C15_QuitPersists == [][C15_Step]_vars

\* C15 witness: the session has ended by quit and the store holds a record
\* deleted in the session, an edited amount and a toggled flag.
C15_Witness ==
    /\ status = "quit"
    /\ Len(store.transactions) = MaxTxns
    /\ \E k \in 1..Len(store.transactions) :
          store.transactions[k].deleted /\ store.transactions[k].description = "rent"
    /\ \E k \in 1..Len(store.transactions) : store.transactions[k].amount = "-5.00"
    /\ \E k \in 1..Len(store.transactions) :
          store.transactions[k].cleared /\ store.transactions[k].description = "rent"

\* The k-th visible transaction (0-based) is not cleared.
Uncleared(k) == ~backing[txns[k + 1]].cleared

\* A valid cursor on a ledger with an uncleared transaction other than the
\* current one.
OtherUncleared ==
    ValidCursor /\ \E k \in 0..(Len(txns) - 1) : k # idx /\ Uncleared(k)

\* The first uncleared position met going forward (dir = 1) or backward
\* (dir = -1) circularly from just beside the cursor.
CircularUncleared(dir) ==
    LET n    == Len(txns)
        at(d) == (idx + dir * d + n) % n
        d    == CHOOSE x \in 1..(n - 1) :
                    Uncleared(at(x)) /\ \A e \in 1..(x - 1) : ~Uncleared(at(e))
    IN  at(d)

C16_Functions ==
    OtherUncleared =>
        /\ jump_next_uncleared(idx, Objects(ledger))
              = [kind |-> "found", i |-> CircularUncleared(1)]
        /\ jump_prev_uncleared(idx, Objects(ledger))
              = [kind |-> "found", i |-> CircularUncleared(0 - 1)]

C16_Step ==
    /\ KeyNextUncleared /\ OtherUncleared =>
          idx' = CircularUncleared(1) /\ scroll' = idx' /\ status' = "running"
    /\ KeyPrevUncleared /\ OtherUncleared =>
          idx' = CircularUncleared(0 - 1) /\ scroll' = idx' /\ status' = "running"
    /\ (KeyNextUncleared \/ KeyPrevUncleared) /\ idx' # idx => scroll' = idx'

\* C16: with a valid cursor and an uncleared transaction other than the
\* current one, jump-next (jump-previous) moves the cursor to the first
\* uncleared transaction met scanning forward (backward) circularly from
\* just after (before) the cursor, wrapping from the last to the first; after
\* a jump that moves the cursor scrollOffset equals the new cursorIndex.
C16_JumpUncleared == [](C16_Functions) /\ [][C16_Step]_vars

\* C16 witness: the cursor and the scroll offset are on the third of three
\* transactions, the second is cleared and the first is not: a jump went
\* there, and the next one wraps to the first.
C16_Witness ==
    /\ status = "running"
    /\ Len(txns) = 3
    /\ Uncleared(0) /\ ~Uncleared(1) /\ Uncleared(2)
    /\ idx = 2
    /\ scroll = 2

\* C17: when no visible transaction is uncleared (all cleared, or the ledger
\* is empty) jump-next and jump-previous end normally, having found nothing,
\* so the cursor stays where it was.
C17_JumpNothingToFind ==
    (\A k \in 1..Len(txns) : backing[txns[k]].cleared) =>
        /\ jump_next_uncleared(idx, Objects(ledger)).kind = "none"
        /\ jump_prev_uncleared(idx, Objects(ledger)).kind = "none"

\* The k-th visible transaction (0-based) matches the term.
Matches(term, k) == Match(term, backing[txns[k + 1]])

\* What find is claimed to do from the cursor: the first match in circular
\* order starting just after the cursor, or nothing.
CircularMatch(term) ==
    LET n     == Len(txns)
        at(d) == (idx + d + n) % n
    IN  IF \A k \in 0..(n - 1) : ~Matches(term, k)
           THEN [kind |-> "none", i |-> 0]
           ELSE LET d == CHOOSE x \in 1..n :
                            Matches(term, at(x)) /\ \A e \in 1..(x - 1) : ~Matches(term, at(e))
                IN  [kind |-> "found", i |-> at(d)]

\* C18: for any ledger (the empty one included) and any term, find ends
\* after a bounded scan that starts just after the cursor and wraps at most
\* once; the cursor moves to the first match in that circular order or stays
\* where it was.
C18_FindTerminates ==
    \A term \in FindInputs : find_next(idx, term, Objects(ledger)) = CircularMatch(term)

\* The window after a render that started with scroll offset pre.
Rendered(pre) ==
    LET v == visible_rows(bank_balance', h')
    IN  scroll' = (IF idx' < pre THEN idx'
                   ELSE IF idx' >= pre + v THEN idx' - v + 1
                   ELSE pre)

C19_Window ==
    status = "running" /\ Len(txns) > 0 /\ visible_rows(bank_balance, h) >= 1 =>
        scroll <= idx /\ idx < scroll + visible_rows(bank_balance, h)

\* A jump or search that finds a transaction sets the scroll offset to the new cursor
\* before the render; every other key leaves it to the render.
C19_Step ==
    status' = "running" /\ Len(txns') > 0 /\ visible_rows(bank_balance', h') >= 1 =>
        \/ Rendered(scroll)
        \/ /\ \/ KeyNextUncleared
              \/ KeyPrevUncleared
              \/ \E in \in FindInputs : KeyFind(in)
              \/ KeyFindNext
           /\ Rendered(idx')

\* C19: after every render, with a non-empty ledger and visibleRows >= 1,
\* scrollOffset <= cursorIndex < scrollOffset + visibleRows; the render
\* changes scrollOffset only when the cursor was outside the window, to
\* cursorIndex (cursor above) or cursorIndex - visibleRows + 1 (below).
C19_ScrollKeepsCursorVisible == [](C19_Window) /\ [][C19_Step]_vars

\* C19 witness: with the reconciliation panel shown the window was scrolled
\* down to keep the cursor on its last row, and a delete has shrunk the list.
C19_Witness ==
    /\ status = "running"
    /\ bank_balance # None
    /\ Len(txns) = ScrollLen - 1
    /\ scroll > 0
    /\ idx = scroll + visible_rows(bank_balance, h) - 1

\* initial_balance + the amounts of the cleared visible transactions
ClearedBalance ==
    Decimal(acct.initial_balance)
      + SumAt([k \in 1..Len(txns) |-> VisAmount(k)], {k \in 1..Len(txns) : VisCleared(k)})

\* The amounts the ledger holds can all be read.
Readable == LiveAmountsAreDecimal /\ AmountsParse(ledger)

C20_Difference ==
    Readable => \A b \in BankValues : reconcile(ledger, b).difference = b - ClearedBalance

\* The steps on an uncleared transaction: an add of an uncleared one, a
\* delete or an edit of an uncleared one, a toggle of an uncleared one.
C20_Step ==
    status' = "running" /\ Readable /\ Readable' =>
        LET target       == backing[txns[PyPos(idx, Len(txns))]]
            on_uncleared == PyValid(idx, Len(txns)) /\ ~target.cleared
            before(b)    == reconcile(ledger, b).difference
            after(b)     == reconcile(ledger, b).difference'
        IN  /\ \/ \E in \in AddInputs : ~StartsWithY(in.cleared) /\ KeyAdd(in)
               \/ on_uncleared /\ KeyDelete
               \/ on_uncleared /\ \E in \in EditInputs \cup DepositEdits : KeyEdit(in)
               => \A b \in BankValues : after(b) = before(b)
            /\ on_uncleared /\ KeySpace
               => \A b \in BankValues : after(b) = before(b) - Decimal(target.amount)

\* C20: reconcile(b).difference = b - (initial_balance + the sum of the
\* amounts of the cleared visible transactions); adding, deleting or changing
\* the amount of an uncleared transaction never changes difference, and
\* toggling a transaction of amount a from uncleared to cleared changes it by
\* exactly -a.
C20_DifferenceFromCleared == [](C20_Difference) /\ [][C20_Step]_vars

\* C20 witness: a debit cleared by a toggle next to an uncleared transaction
\* edited into a deposit, after a delete.
C20_Witness ==
    /\ status = "running"
    /\ Readable
    /\ \E k \in 1..Len(txns) : VisCleared(k) /\ backing[txns[k]].amount = "-20.00"
    /\ \E k \in 1..Len(txns) : ~VisCleared(k) /\ backing[txns[k]].amount = "50.00"
    /\ \E k \in 1..Len(backing) :
          backing[k].deleted /\ ~backing[k].cleared /\ backing[k].amount = "50.00"

====
